---- MODULE Spec2Model ----
(***************************************************************************)
(* Model of dr_manager.py: the taxonomy store (country -> cat1 -> [cat2]), *)
(* its metadata file, the directory tree kept in sync with it, and the     *)
(* generation of product stub files.                                       *)
(*                                                                         *)
(* Paths are sequences of path segments relative to the root.  Texts are   *)
(* sequences: a name is a sequence of characters, a file body a sequence   *)
(* of lines, the metadata file a sequence of tokens.                       *)
(***************************************************************************)
EXTENDS Integers, Sequences, FiniteSets, TLC

VARIABLES
    loaded,   \* TRUE when a Store object exists (Store.load returned)
    data,     \* Store.data: country -> cat1 -> list of cat2
    meta,     \* content of _meta/categories.json, or Absent
    dirs,     \* the directories existing under the root
    files,    \* the product files under the root: path -> body
    clock,    \* the UTC time now_iso() reads, in seconds
    last,     \* the last operation called, its arguments and its outcome
    runs      \* the calls in progress beside the Store above: id -> state

vars == <<loaded, data, meta, dirs, files, clock, last, runs>>

----------------------------------------------------------------------------
(* Bounds *)

\* every write of a product file takes the clock one second further; no
\* write starts at this time or later
MaxClock == 2

----------------------------------------------------------------------------
(* Names and their order *)

Countries == {"cn", "us"}
Cat1Names == {"food"}
Cat2Names == {"drinks", "snacks"}

\* Python compares str by code point; the names used here, in that order
NameOrder == <<"cn", "drinks", "food", "snacks", "toys", "us">>

Rank(s) == CHOOSE i \in 1..Len(NameOrder) : NameOrder[i] = s

RECURSIVE SortedInsert(_, _)
SortedInsert(s, x) ==
    IF s = <<>> THEN <<x>>
    ELSE IF Rank(x) < Rank(Head(s)) THEN <<x>> \o s
    ELSE <<Head(s)>> \o SortedInsert(Tail(s), x)

\* list.sort() / sorted(list): duplicates are kept
RECURSIVE sorted(_)
sorted(s) == IF s = <<>> THEN <<>> ELSE SortedInsert(sorted(Tail(s)), Head(s))

\* sorted(d.keys())
RECURSIVE SortedKeys(_)
SortedKeys(S) ==
    IF S = {} THEN <<>>
    ELSE LET m == CHOOSE x \in S : \A y \in S : Rank(x) <= Rank(y)
         IN <<m>> \o SortedKeys(S \ {m})

Range(s) == {s[i] : i \in DOMAIN s}

IsSortedUnique(s) == \A i \in 1..(Len(s) - 1) : Rank(s[i]) < Rank(s[i + 1])

----------------------------------------------------------------------------
(* The taxonomy document *)

EmptyMap == [x \in {} |-> <<>>]

\* the documents over the names above whose cat2 lists are sorted and unique
SortedLists == {s \in UNION {[1..n -> Cat2Names] : n \in 0..Cardinality(Cat2Names)} :
                    IsSortedUnique(s)}

CatMaps == UNION {[K -> SortedLists] : K \in SUBSET Cat1Names}

Documents == UNION {[C -> CatMaps] : C \in SUBSET Countries}

\* Store.countries
countries(d) == SortedKeys(DOMAIN d)

\* Store.cat1_list
cat1_list(d, country) ==
    IF country \in DOMAIN d THEN SortedKeys(DOMAIN d[country]) ELSE <<>>

\* Store.cat2_list
cat2_list(d, country, cat1) ==
    IF country \in DOMAIN d /\ cat1 \in DOMAIN d[country]
    THEN sorted(d[country][cat1]) ELSE <<>>

\* d with d[k] set to v, k added to the keys if it is new
SetKey(d, k, v) == [x \in DOMAIN d \cup {k} |-> IF x = k THEN v ELSE d[x]]

\* d without the key k
DelKey(d, k) == [x \in DOMAIN d \ {k} |-> d[x]]

\* s without the first occurrence of x (list.remove)
RECURSIVE ListRemove(_, _)
ListRemove(s, x) ==
    IF s = <<>> THEN <<>>
    ELSE IF Head(s) = x THEN Tail(s)
    ELSE <<Head(s)>> \o ListRemove(Tail(s), x)

add_country(d, country) ==
    IF country \notin DOMAIN d THEN SetKey(d, country, EmptyMap) ELSE d

add_cat1(d, country, cat1) ==
    LET d1 == add_country(d, country)
    IN IF cat1 \in DOMAIN d1[country] THEN d1
       ELSE SetKey(d1, country, SetKey(d1[country], cat1, <<>>))

\* add_cat2 without the membership test
add_cat2_always_appends(d, country, cat1, cat2) ==
    LET d1  == add_cat1(d, country, cat1)
        lst == d1[country][cat1]
    IN SetKey(d1, country, SetKey(d1[country], cat1, sorted(Append(lst, cat2))))

\* add_cat2 without the sort
add_cat2_unsorted(d, country, cat1, cat2) ==
    LET d1  == add_cat1(d, country, cat1)
        lst == d1[country][cat1]
    IN IF cat2 \notin Range(lst)
       THEN SetKey(d1, country, SetKey(d1[country], cat1, Append(lst, cat2)))
       ELSE d1

add_cat2(d, country, cat1, cat2) ==
    LET d1  == add_cat1(d, country, cat1)
        lst == d1[country][cat1]
    IN IF cat2 \notin Range(lst)
       THEN SetKey(d1, country,
                   SetKey(d1[country], cat1, sorted(Append(lst, cat2))))
       ELSE d1

\* the return value of Store.remove_cat2
remove_cat2_ret(d, country, cat1, cat2) ==
    /\ country \in DOMAIN d
    /\ cat1 \in DOMAIN d[country]
    /\ d[country][cat1] # <<>>
    /\ cat2 \in Range(d[country][cat1])

\* the document after Store.remove_cat2
remove_cat2(d, country, cat1, cat2) ==
    IF remove_cat2_ret(d, country, cat1, cat2)
    THEN SetKey(d, country,
                SetKey(d[country], cat1, ListRemove(d[country][cat1], cat2)))
    ELSE d

\* the return value of Store.remove_cat1
remove_cat1_ret(d, country, cat1) ==
    /\ country \in DOMAIN d
    /\ DOMAIN d[country] # {}
    /\ cat1 \in DOMAIN d[country]

\* a removal that empties the country
remove_cat1_clears_country(d, country, cat1) ==
    IF remove_cat1_ret(d, country, cat1)
    THEN SetKey(d, country, EmptyMap)
    ELSE d

\* the document after Store.remove_cat1
remove_cat1(d, country, cat1) ==
    IF remove_cat1_ret(d, country, cat1)
    THEN SetKey(d, country, DelKey(d[country], cat1))
    ELSE d

----------------------------------------------------------------------------
(* The metadata file: json.dumps and json.loads *)

\* the value of meta when the file does not exist: no text of a file
Absent == <<[tok |-> "absent"]>>

OpenTok == [tok |-> "{"]
CloseTok == [tok |-> "}"]

\* the members of one country's object, in key order
DumpCats(m) ==
    LET ks == SortedKeys(DOMAIN m)
    IN [i \in 1..Len(ks) |->
           [tok |-> "member", key |-> ks[i], kind |-> "array", val |-> m[ks[i]]]]

\* a dump that leaves out the countries without categories
dumps_skips_empty_countries(d) ==
    LET ks == SortedKeys({c \in DOMAIN d : DOMAIN d[c] # {}})
    IN <<OpenTok>>
       \o [i \in 1..Len(ks) |->
              [tok |-> "member", key |-> ks[i], kind |-> "object",
               val |-> DumpCats(d[ks[i]])]]
       \o <<CloseTok>>

\* json.dumps(data): the file's text, one token per top-level member
\* between the braces; a member holds its key, the kind of its JSON value
\* and the value
dumps(d) ==
    LET ks == SortedKeys(DOMAIN d)
    IN <<OpenTok>>
       \o [i \in 1..Len(ks) |->
              [tok |-> "member", key |-> ks[i], kind |-> "object",
               val |-> DumpCats(d[ks[i]])]]
       \o <<CloseTok>>

\* Store.load gets a dict from the text: json.loads raises on a text that
\* is not complete, and the normalization raises on a value that is no dict
Parseable(text) ==
    /\ Len(text) >= 2
    /\ text[1].tok = "{"
    /\ text[Len(text)].tok = "}"
    /\ \A i \in 2..(Len(text) - 1) : text[i].tok = "member"

\* the keys of the members of a JSON object
Keys(ms) == {ms[i].key : i \in DOMAIN ms}

\* the member a dict gets the value of k from: the last one with that key
LastMember(ms, k) ==
    ms[CHOOSE i \in DOMAIN ms :
          /\ ms[i].key = k
          /\ \A j \in DOMAIN ms : ms[j].key = k => j <= i]

\* a Python value that is not of the type Store.data declares
OtherValue(m) == [pytype |-> m.kind, val |-> m.val]

\* the Python value of a member of a country's object: json.loads does not
\* look at the type
LoadCat(m) == IF m.kind = "array" THEN m.val ELSE OtherValue(m)

\* the Python value of a top-level member
LoadCountry(m) ==
    IF m.kind = "object"
    THEN [k \in Keys(m.val) |-> LoadCat(LastMember(m.val, k))]
    ELSE OtherValue(m)

\* json.loads(text) of a parseable text
loads(text) ==
    LET ms == SubSeq(text, 2, Len(text) - 1)
    IN [k \in Keys(ms) |-> LoadCountry(LastMember(ms, k))]

\* the text holds a mapping country -> (mapping cat1 -> list)
ExpectedStructure(text) ==
    /\ Parseable(text)
    /\ \A i \in 2..(Len(text) - 1) :
          /\ text[i].kind = "object"
          /\ \A j \in DOMAIN text[i].val : text[i].val[j].kind = "array"

\* the texts a write of text leaves behind when it stops part-way
StrictPrefixes(text) == {SubSeq(text, 1, n) : n \in 0..(Len(text) - 1)}

----------------------------------------------------------------------------
(* slugify_filename, over sequences of characters *)

Whitespace == {" ", "\t", "\n"}

\* <>:"/\|?* and the control characters
Illegal == {"<", ">", ":", "\"", "/", "\\", "|", "?", "*", "\t", "\n", "NUL"}

Separators == {"-", "_"}

Fallback == <<"u", "n", "n", "a", "m", "e", "d", "-", "p", "r", "o", "d", "u", "c", "t">>

RECURSIVE LStrip(_, _)
LStrip(s, cs) ==
    IF s # <<>> /\ Head(s) \in cs THEN LStrip(Tail(s), cs) ELSE s

RECURSIVE RStrip(_, _)
RStrip(s, cs) ==
    IF s # <<>> /\ s[Len(s)] \in cs THEN RStrip(SubSeq(s, 1, Len(s) - 1), cs) ELSE s

\* str.strip(cs)
Strip(s, cs) == RStrip(LStrip(s, cs), cs)

\* re.sub(r"\s+", "-", s)
RECURSIVE SubWhitespace(_)
SubWhitespace(s) ==
    IF s = <<>> THEN <<>>
    ELSE IF Head(s) \in Whitespace
         THEN <<"-">> \o SubWhitespace(LStrip(s, Whitespace))
         ELSE <<Head(s)>> \o SubWhitespace(Tail(s))

\* re.sub(r'[<>:"/\\|?*\x00-\x1F]', "", s)
RemoveIllegal(s) == SelectSeq(s, LAMBDA c : c \notin Illegal)

\* re.sub(r"[-_]{2,}", "-", s)
RECURSIVE CollapseSeparators(_)
CollapseSeparators(s) ==
    IF s = <<>> THEN <<>>
    ELSE IF Len(s) >= 2 /\ s[1] \in Separators /\ s[2] \in Separators
         THEN <<"-">> \o CollapseSeparators(LStrip(s, Separators))
         ELSE <<Head(s)>> \o CollapseSeparators(Tail(s))

\* a slug that strips the separators before it removes the reserved
\* characters
slugify_filename_strips_early(name) ==
    LET n0 == Strip(name, Whitespace)
        n1 == SubWhitespace(n0)
        n3 == CollapseSeparators(RemoveIllegal(Strip(n1, {"-", "_", "."})))
    IN IF n0 = <<>> THEN Fallback
       ELSE IF n3 = <<>> THEN Fallback ELSE n3

slugify_filename(name) ==
    LET n0 == Strip(name, Whitespace)
        n1 == SubWhitespace(n0)
        n2 == RemoveIllegal(n1)
        n3 == Strip(CollapseSeparators(n2), {"-", "_", "."})
    IN IF n0 = <<>> THEN Fallback
       ELSE IF n3 = <<>> THEN Fallback ELSE n3

----------------------------------------------------------------------------
(* render_yaml_template: a body is a sequence of lines, a line a sequence  *)
(* of pieces (literal fragments and characters)                            *)

\* str.splitlines on "\n"
RECURSIVE splitlines(_)
splitlines(text) ==
    IF text = <<>> THEN <<>>
    ELSE LET n == IF \E i \in DOMAIN text : text[i] = "\n"
                  THEN CHOOSE i \in DOMAIN text :
                          text[i] = "\n" /\ \A j \in 1..(i - 1) : text[j] # "\n"
                  ELSE 0
         IN IF n = 0 THEN <<text>>
            ELSE <<SubSeq(text, 1, n - 1)>> \o splitlines(SubSeq(text, n + 1, Len(text)))

\* the pad of indent spaces
Pad(indent) == [i \in 1..indent |-> " "]

\* an escape that keeps the first line only
yaml_escape_multiline_first_line(text, indent) ==
    LET ls == IF splitlines(text) = <<>> THEN <<<<>>>> ELSE splitlines(text)
    IN <<Pad(indent) \o ls[1]>>

yaml_escape_multiline(text, indent) ==
    LET ls == IF splitlines(text) = <<>> THEN <<<<>>>> ELSE splitlines(text)
    IN [i \in 1..Len(ls) |-> Pad(indent) \o ls[i]]

\* product_name.replace('"', '\\"')
RECURSIVE EscapeQuotes(_)
EscapeQuotes(s) ==
    IF s = <<>> THEN <<>>
    ELSE (IF Head(s) = "\"" THEN <<"\\", "\"">> ELSE <<Head(s)>>)
         \o EscapeQuotes(Tail(s))

\* "\n".join(lines).rstrip(): trailing blank lines and trailing blanks go
RECURSIVE RStripLines(_)
RStripLines(ls) ==
    IF ls = <<>> THEN <<>>
    ELSE LET l == RStrip(ls[Len(ls)], Whitespace)
         IN IF l = <<>> THEN RStripLines(SubSeq(ls, 1, Len(ls) - 1))
            ELSE SubSeq(ls, 1, Len(ls) - 1) \o <<l>>

\* now_iso() at time t
now_iso(t) == <<ToString(t), "Z">>

render_yaml_template(product_name, description, country, cat1, cat2, t) ==
    RStripLines(
        << <<"# data-records.net product stub">>,
           <<"# generated_at: ">> \o now_iso(t),
           <<"# path: ", country, "/", cat1, "/", cat2, "/">>
               \o slugify_filename(product_name) \o <<".yaml">>,
           <<>>,
           <<"product:">>,
           <<"  name: \"">> \o EscapeQuotes(product_name) \o <<"\"">>,
           <<"  description: |">> >>
        \o yaml_escape_multiline(description, 4)
        \o << <<>> >>)

----------------------------------------------------------------------------
(* The directory tree *)

\* sync_dirs(country=None): `if country` is false for None and for ""
NoCountry == ""

MetaDir == <<"_meta">>

\* an existence test that never finds anything
Exists_never(p, ds, fs) == FALSE

\* Path.exists
Exists(p, ds, fs) == p \in ds \/ p \in DOMAIN fs

\* Path.mkdir(parents=True, exist_ok=True)
ensure_dir(ds, p) == ds \cup {SubSeq(p, 1, n) : n \in 1..Len(p)}

\* Store.target_dir
target_dir(country, cat1, cat2) == <<country, cat1, cat2>>

RECURSIVE Concat(_)
Concat(ss) == IF ss = <<>> THEN <<>> ELSE Head(ss) \o Concat(Tail(ss))

\* a sync that falls back to the default country when none is given
SyncCountries_default_only(d, country) ==
    IF country # NoCountry THEN <<country>> ELSE <<"cn">>

\* the countries sync_dirs goes through
SyncCountries(d, country) ==
    IF country # NoCountry THEN <<country>> ELSE countries(d)

\* the paths the loops of sync_dirs visit, in order
SyncPaths(d, country) ==
    LET cs == SyncCountries(d, country)
        OfCat1(c, k1) ==
            LET l == cat2_list(d, c, k1)
            IN [i \in 1..Len(l) |-> target_dir(c, k1, l[i])]
        OfCountry(c) ==
            LET l == cat1_list(d, c)
            IN Concat([i \in 1..Len(l) |-> OfCat1(c, l[i])])
    IN Concat([i \in 1..Len(cs) |-> OfCountry(cs[i])])

\* a loop that reports every path it visits
RECURSIVE SyncLoop_reports_all(_, _, _, _)
SyncLoop_reports_all(ps, ds, fs, created) ==
    IF ps = <<>> THEN [dirs |-> ds, created |-> created]
    ELSE SyncLoop_reports_all(Tail(ps), ensure_dir(ds, Head(ps)), fs,
                              Append(created, Head(ps)))

\* the body of the loops: the directories and the created list after ps
RECURSIVE SyncLoop(_, _, _, _)
SyncLoop(ps, ds, fs, created) ==
    IF ps = <<>> THEN [dirs |-> ds, created |-> created]
    ELSE IF ~Exists(Head(ps), ds, fs)
         THEN SyncLoop(Tail(ps), ensure_dir(ds, Head(ps)), fs, Append(created, Head(ps)))
         ELSE SyncLoop(Tail(ps), ds, fs, created)

\* Store.sync_dirs: the directories afterwards and the list returned
sync_dirs(d, ds, fs, country) == SyncLoop(SyncPaths(d, country), ds, fs, <<>>)

----------------------------------------------------------------------------
(* Inputs *)

\* product names: "A b!", "  A  b! " (same slug) and "<" (no slug of its own)
ProductNames == { <<"A", " ", "b", "!">>,
                  <<" ", "A", " ", " ", "b", "!", " ">>,
                  <<"<">> }

\* descriptions: "x\ny"
Descriptions == { <<"x", "\n", "y">> }

----------------------------------------------------------------------------
(* Operations *)

NoFiles == [p \in {} |-> <<>>]

\* no call in progress
NoRuns == [i \in {} |-> <<>>]

\* the calls add_cat2, save, load made in a row, as far as the last calls
\* go along that row
Chain(op, arg) ==
    IF op = "add_cat2" THEN <<arg>>
    ELSE IF op = "save" /\ Len(last.chain) = 1 THEN Append(last.chain, arg)
    ELSE IF op = "load" /\ Len(last.chain) = 2 THEN Append(last.chain, arg)
    ELSE <<>>

\* the record of a finished call: rep says that the call before it was the
\* same call with the same arguments
Done(op, arg, ret) ==
    [op |-> op, arg |-> arg, ret |-> ret,
     rep |-> (last.op = op /\ last.arg = arg),
     chain |-> Chain(op, arg)]

\* the starting states: no Store yet; the root holds nothing, or a metadata
\* file that an earlier run saved
Init ==
    /\ loaded = FALSE
    /\ data = EmptyMap
    /\ meta \in {Absent} \cup {dumps(d) : d \in Documents}
    /\ dirs = IF meta = Absent THEN {} ELSE {MetaDir}
    /\ files = NoFiles
    /\ clock = 0
    /\ last = [op |-> "start", arg |-> <<>>, ret |-> "ok", rep |-> FALSE, chain |-> <<>>]
    /\ runs = NoRuns

\* the starting state on an empty root
InitEmpty == Init /\ meta = Absent

\* a load without the normalization
LoadedDocument_as_read(m) ==
    IF m = Absent THEN SetKey(EmptyMap, "cn", EmptyMap) ELSE loads(m)

\* the document load builds from the file
LoadedDocument(m) ==
    LET raw == IF m = Absent THEN SetKey(EmptyMap, "cn", EmptyMap) ELSE loads(m)
    IN IF "cn" \notin DOMAIN raw THEN SetKey(raw, "cn", EmptyMap) ELSE raw

Store_load ==
    /\ meta = Absent \/ Parseable(meta)
    /\ loaded' = TRUE
    /\ dirs' = ensure_dir(dirs, MetaDir)
    /\ meta' = IF meta = Absent THEN dumps(SetKey(EmptyMap, "cn", EmptyMap)) ELSE meta
    /\ data' = LoadedDocument(meta)
    /\ last' = Done("load", <<>>, "ok")
    /\ UNCHANGED <<files, clock, runs>>

Store_save ==
    /\ loaded
    /\ meta' = dumps(data)
    /\ last' = Done("save", <<>>, "ok")
    /\ UNCHANGED <<loaded, data, dirs, files, clock, runs>>

Store_add_country(country) ==
    /\ loaded
    /\ data' = add_country(data, country)
    /\ last' = Done("add_country", <<country>>, "ok")
    /\ UNCHANGED <<loaded, meta, dirs, files, clock, runs>>

Store_add_cat1(country, cat1) ==
    /\ loaded
    /\ data' = add_cat1(data, country, cat1)
    /\ last' = Done("add_cat1", <<country, cat1>>, "ok")
    /\ UNCHANGED <<loaded, meta, dirs, files, clock, runs>>

Store_add_cat2(country, cat1, cat2) ==
    /\ loaded
    /\ data' = add_cat2(data, country, cat1, cat2)
    /\ last' = Done("add_cat2", <<country, cat1, cat2>>, "ok")
    /\ UNCHANGED <<loaded, meta, dirs, files, clock, runs>>

Store_remove_cat2(country, cat1, cat2) ==
    /\ loaded
    /\ data' = remove_cat2(data, country, cat1, cat2)
    /\ last' = Done("remove_cat2", <<country, cat1, cat2>>,
                    remove_cat2_ret(data, country, cat1, cat2))
    /\ UNCHANGED <<loaded, meta, dirs, files, clock, runs>>

Store_remove_cat1(country, cat1) ==
    /\ loaded
    /\ data' = remove_cat1(data, country, cat1)
    /\ last' = Done("remove_cat1", <<country, cat1>>,
                    remove_cat1_ret(data, country, cat1))
    /\ UNCHANGED <<loaded, meta, dirs, files, clock, runs>>

Store_sync_dirs(country) ==
    /\ loaded
    /\ LET r == sync_dirs(data, dirs, files, country)
       IN /\ dirs' = r.dirs
          /\ last' = Done("sync_dirs", <<country>>, r.created)
    /\ UNCHANGED <<loaded, data, meta, files, clock, runs>>

\* a membership check that stops at cat1
MissingLevel_without_cat2(d, country, cat1, cat2) ==
    IF country \notin DOMAIN d THEN "country"
    ELSE IF cat1 \notin DOMAIN d[country] THEN "cat1"
    ELSE "none"

\* the level cmd_gen finds missing, or "none"
MissingLevel(d, country, cat1, cat2) ==
    IF country \notin DOMAIN d THEN "country"
    ELSE IF cat1 \notin DOMAIN d[country] THEN "cat1"
    ELSE IF cat2 \notin Range(d[country][cat1]) THEN "cat2"
    ELSE "none"

\* the path cmd_gen writes
out_path(country, cat1, cat2, name) ==
    target_dir(country, cat1, cat2) \o <<slugify_filename(name) \o <<".yaml">>>>

\* a cmd_gen that never refuses
GenConflict_never(p, ds, fs, overwrite) == FALSE

\* cmd_gen refuses to write
GenConflict(p, ds, fs, overwrite) == Exists(p, ds, fs) /\ ~overwrite

cmd_gen(country, cat1, cat2, name, desc, overwrite) ==
    LET arg  == <<country, cat1, cat2, name, desc, overwrite>>
        miss == MissingLevel(data, country, cat1, cat2)
        ds   == ensure_dir(sync_dirs(data, dirs, files, country).dirs,
                           target_dir(country, cat1, cat2))
        p    == out_path(country, cat1, cat2, name)
    IN /\ loaded
       /\ IF miss # "none"
          THEN /\ last' = Done("gen", arg, miss)
               /\ UNCHANGED <<dirs, files, clock>>
          ELSE IF GenConflict(p, ds, files, overwrite)
          THEN /\ dirs' = ds
               /\ last' = Done("gen", arg, "exists")
               /\ UNCHANGED <<files, clock>>
          ELSE /\ clock < MaxClock
               /\ dirs' = ds
               /\ files' = SetKey(files, p,
                                  render_yaml_template(name, desc, country, cat1, cat2, clock))
               /\ clock' = clock + 1
               /\ last' = Done("gen", arg, "generated")
       /\ UNCHANGED <<loaded, data, meta, runs>>

----------------------------------------------------------------------------
(* Specifications *)

StoreNext ==
    \/ Store_load
    \/ Store_save
    \/ \E c \in Countries : Store_add_country(c)
    \/ \E c \in Countries, k1 \in Cat1Names : Store_add_cat1(c, k1)
    \/ \E c \in Countries, k1 \in Cat1Names, k2 \in Cat2Names : Store_add_cat2(c, k1, k2)
    \/ \E c \in Countries, k1 \in Cat1Names, k2 \in Cat2Names : Store_remove_cat2(c, k1, k2)
    \/ \E c \in Countries, k1 \in Cat1Names : Store_remove_cat1(c, k1)

\* the store alone: load, save and the mutations
SpecStore == Init /\ [][StoreNext]_vars

SyncNext ==
    \/ Store_load
    \/ \E c \in Countries, k1 \in Cat1Names, k2 \in Cat2Names : Store_add_cat2(c, k1, k2)
    \/ \E c \in Countries, k1 \in Cat1Names, k2 \in Cat2Names : Store_remove_cat2(c, k1, k2)
    \/ \E c \in Countries, k1 \in Cat1Names : Store_remove_cat1(c, k1)
    \/ \E c \in Countries \cup {NoCountry} : Store_sync_dirs(c)
    \/ \E c \in Countries, k1 \in Cat1Names, k2 \in Cat2Names :
          cmd_gen(c, k1, k2, <<"<">>, <<"x">>, TRUE)

\* the store and the directory tree, from an empty root
SpecSync == InitEmpty /\ [][SyncNext]_vars

GenNext ==
    \/ Store_load
    \/ \E k1 \in Cat1Names, k2 \in Cat2Names : Store_add_cat2("cn", k1, k2)
    \/ \E c \in Countries, k1 \in Cat1Names, k2 \in Cat2Names,
          n \in ProductNames, ds \in Descriptions, ow \in BOOLEAN :
          cmd_gen(c, k1, k2, n, ds, ow)

\* the store and the product files, from an empty root
SpecGen == InitEmpty /\ [][GenNext]_vars

----------------------------------------------------------------------------
(* Interrupted writes: Path.write_text opens the file for writing, which   *)
(* empties it, and then writes the text; a call that stops in between      *)
(* leaves a part of the text                                               *)

\* Store.load on a metadata file json.loads rejects
Store_load_raises ==
    /\ meta # Absent /\ ~Parseable(meta)
    /\ loaded' = FALSE
    /\ data' = EmptyMap
    /\ dirs' = ensure_dir(dirs, MetaDir)
    /\ last' = Done("load", <<>>, "raised")
    /\ UNCHANGED <<meta, files, clock, runs>>

\* Store.save stopped inside write_text
Store_save_interrupted ==
    /\ loaded
    /\ \E part \in StrictPrefixes(dumps(data)) : meta' = part
    /\ last' = Done("save", <<>>, "interrupted")
    /\ UNCHANGED <<loaded, data, dirs, files, clock, runs>>

\* cmd_gen stopped inside write_text
cmd_gen_interrupted(country, cat1, cat2, name, desc, overwrite) ==
    LET arg  == <<country, cat1, cat2, name, desc, overwrite>>
        ds   == ensure_dir(sync_dirs(data, dirs, files, country).dirs,
                           target_dir(country, cat1, cat2))
        p    == out_path(country, cat1, cat2, name)
        text == render_yaml_template(name, desc, country, cat1, cat2, clock)
    IN /\ loaded
       /\ MissingLevel(data, country, cat1, cat2) = "none"
       /\ ~GenConflict(p, ds, files, overwrite)
       /\ clock < MaxClock
       /\ dirs' = ds
       /\ \E part \in StrictPrefixes(text) : files' = SetKey(files, p, part)
       /\ clock' = clock + 1
       /\ last' = Done("gen", arg, "interrupted")
       /\ UNCHANGED <<loaded, data, meta, runs>>

WriteNext ==
    \/ Store_load
    \/ Store_load_raises
    \/ \E k2 \in Cat2Names : Store_add_cat2("cn", "food", k2)
    \/ Store_save
    \/ Store_save_interrupted
    \/ \E k2 \in Cat2Names, ow \in BOOLEAN :
          cmd_gen("cn", "food", k2, <<"<">>, <<"x">>, ow)
    \/ \E k2 \in Cat2Names, ow \in BOOLEAN :
          cmd_gen_interrupted("cn", "food", k2, <<"<">>, <<"x">>, ow)

\* the store and the product files when a write can stop part-way
SpecWrite == InitEmpty /\ [][WriteNext]_vars

----------------------------------------------------------------------------
(* Properties *)

\* the (country, cat1, cat2) triples of a document
Triples(d) ==
    UNION {UNION {{<<c, k1, d[c][k1][i]>> : i \in DOMAIN d[c][k1]} :
                  k1 \in DOMAIN d[c]} : c \in DOMAIN d}

\* how often x occurs in s
Count(s, x) == Cardinality({i \in DOMAIN s : s[i] = x})

\* C1: when sync_dirs has returned, every triple of the document (of the
\* country given, or of all countries when none is given) has its directory
\* country/cat1/cat2 under the root
C1_SyncCoversTaxonomy ==
    last.op = "sync_dirs" =>
        \A t \in Triples(data) :
            (last.arg[1] = NoCountry \/ t[1] = last.arg[1]) => t \in dirs

\* a sync of all countries that created two directories or more while a
\* directory of a removed triple is still there
C1_Witness ==
    /\ last.op = "sync_dirs"
    /\ last.arg[1] = NoCountry
    /\ Len(last.ret) >= 2
    /\ \E p \in dirs : Len(p) = 3 /\ p \notin Triples(data)

\* C2: cmd_gen without overwrite on an existing target fails and leaves the
\* files as they were, also when it repeats the call that wrote the file;
\* a file's content changes only under overwrite
C2_NoOverwriteWithoutFlag ==
    [][last'.op = "gen" =>
        LET a == last'.arg
            p == out_path(a[1], a[2], a[3], a[4])
        IN /\ (p \in DOMAIN files /\ ~a[6]) =>
                  (last'.ret # "generated" /\ files' = files)
           /\ (last.op = "gen" /\ last.ret = "generated" /\ last.arg = a /\ ~a[6]) =>
                  (last'.ret = "exists" /\ files' = files)
           /\ (p \in DOMAIN files /\ files'[p] # files[p]) => a[6]
           /\ \A q \in DOMAIN files : q # p => (q \in DOMAIN files' /\ files'[q] = files[q])
    ]_vars

\* the same call made twice without overwrite: the second one found the file
C2_Witness ==
    /\ last.op = "gen"
    /\ last.rep
    /\ ~last.arg[6]
    /\ last.ret = "exists"
    /\ out_path(last.arg[1], last.arg[2], last.arg[3], last.arg[4]) \in DOMAIN files

\* C3: cmd_gen for a country, cat1 or cat2 the store does not have fails
\* naming the first level that is missing, writes no directory and no file,
\* and leaves the document and the metadata file as they were
C3_MissingLevelRefused ==
    [][last'.op = "gen" =>
        LET a == last'.arg
            level == IF a[1] \notin DOMAIN data THEN "country"
                     ELSE IF a[2] \notin DOMAIN data[a[1]] THEN "cat1"
                     ELSE IF <<a[1], a[2], a[3]>> \notin Triples(data) THEN "cat2"
                     ELSE "none"
        IN level # "none" =>
              /\ last'.ret = level
              /\ dirs' = dirs
              /\ files' = files
              /\ data' = data
              /\ meta' = meta
    ]_vars

\* a call refused for its cat2, made when a directory of the country was
\* still missing
C3_Witness ==
    /\ last.op = "gen"
    /\ last.ret = "cat2"
    /\ \E t \in Triples(data) : t[1] = last.arg[1] /\ t \notin dirs

\* C4 as stated: the paths sync_dirs returns are the paths that did not
\* exist before the call and exist after it
C4_ReturnsAllNewPaths ==
    [][last'.op = "sync_dirs" => Range(last'.ret) = dirs' \ dirs]_vars

\* C4 amended: the paths sync_dirs returns are the country/cat1/cat2
\* directories that did not exist before the call and exist after it, each
\* once; the parent directories it creates on the way are not returned
C4_ReturnsNewTripleDirs ==
    [][last'.op = "sync_dirs" =>
        /\ Range(last'.ret) = {p \in dirs' \ dirs : Len(p) = 3}
        /\ \A p \in Range(last'.ret) : Count(last'.ret, p) = 1
    ]_vars

\* a sync that created a directory below an existing parent and left
\* another one alone
C4_Witness ==
    /\ last.op = "sync_dirs"
    /\ Len(last.ret) = 1
    /\ \E t \in Triples(data) : t \notin Range(last.ret) /\ t[1] = last.ret[1][1]

\* C5: sync_dirs called again with the same argument, nothing in between,
\* returns the empty list and leaves the directories as they are
C5_SyncIdempotent ==
    [][(last'.op = "sync_dirs" /\ last'.rep) =>
          (last'.ret = <<>> /\ dirs' = dirs)]_vars

\* the second of two syncs in a row, on a tree with directories to keep
C5_Witness ==
    /\ last.op = "sync_dirs"
    /\ last.rep
    /\ \E t \in Triples(data) : last.arg[1] \in {NoCountry, t[1]}

\* C6: after add_cat2(c, k1, k2), save() and a fresh load, the document is
\* the one that was saved and its list for (c, k1) holds k2 once, in sorted
\* position
C6_SaveLoadRoundTrip ==
    [][(last'.op = "load" /\ Len(last'.chain) = 3) =>
        LET a == last'.chain[1]
        IN /\ data' = data
           /\ Count(cat2_list(data', a[1], a[2]), a[3]) = 1
           /\ IsSortedUnique(cat2_list(data', a[1], a[2]))
           /\ cat2_list(data', a[1], a[2]) = data'[a[1]][a[2]]
    ]_vars

\* a reload after add_cat2 and save, of a list of two
C6_Witness ==
    /\ last.op = "load"
    /\ Len(last.chain) = 3
    /\ Len(cat2_list(data, last.chain[1][1], last.chain[1][2])) = 2

\* C7: add_country, add_cat1 and add_cat2 of an entry that is there leave
\* the document as it is and raise nothing, and so does the same add made
\* a second time
C7_AddIdempotent ==
    [][/\ (last'.op = "add_country" /\ last'.arg[1] \in DOMAIN data) => data' = data
       /\ (/\ last'.op = "add_cat1"
           /\ last'.arg[1] \in DOMAIN data
           /\ last'.arg[2] \in DOMAIN data[last'.arg[1]]) => data' = data
       /\ (last'.op = "add_cat2" /\ last'.arg \in Triples(data)) => data' = data
       /\ (last'.op \in {"add_country", "add_cat1", "add_cat2"} /\ last'.rep) =>
              data' = data
       /\ last'.op \in {"add_country", "add_cat1", "add_cat2"} => last'.ret = "ok"
    ]_vars

\* the same add_cat2 made twice in a row, on a list of two
C7_Witness ==
    /\ last.op = "add_cat2"
    /\ last.rep
    /\ Len(data[last.arg[1]][last.arg[2]]) = 2

\* C8: every country of the document maps to a mapping of cat1 names, and
\* every cat2 list is sorted and without duplicates
C8_DocumentWellFormed ==
    loaded =>
        \A c \in DOMAIN data :
            /\ DOMAIN data[c] \subseteq Cat1Names
            /\ \A k1 \in DOMAIN data[c] : IsSortedUnique(data[c][k1])

\* an add_cat2 that had to put the new name before the one that was there
C8_Witness ==
    /\ last.op = "add_cat2"
    /\ ~last.rep
    /\ data[last.arg[1]][last.arg[2]] = <<last.arg[3]>> \o <<"snacks">>

\* C9: after a write of cmd_gen or of Store.save, finished or not, the
\* target holds what it held before or the whole new text
C9_WritesAllOrNothing ==
    [][/\ last'.op = "save" => meta' \in {meta, dumps(data)}
       /\ last'.op = "gen" =>
            LET a == last'.arg
                p == out_path(a[1], a[2], a[3], a[4])
            IN \/ p \notin DOMAIN files' /\ p \notin DOMAIN files
               \/ p \in DOMAIN files' /\ p \in DOMAIN files /\ files'[p] = files[p]
               \/ /\ p \in DOMAIN files'
                  /\ files'[p] = render_yaml_template(a[4], a[5], a[1], a[2], a[3], clock)
    ]_vars

\* C10 as stated: after load, countries() is the set of the country keys of
\* the persisted document
C10_CountriesArePersistedKeys ==
    last.op = "load" =>
        /\ last.ret = "ok"
        /\ Range(countries(data)) = DOMAIN loads(meta)

\* C10 amended: load does not fail, and countries() is the set of the
\* country keys of the persisted document together with "cn"
C10_CountriesArePersistedKeysAndCn ==
    last.op = "load" =>
        /\ last.ret = "ok"
        /\ loaded
        /\ Range(countries(data)) = DOMAIN loads(meta) \cup {"cn"}
        /\ \A c \in DOMAIN loads(meta) : data[c] = loads(meta)[c]

\* a load of a document that has "us" and not "cn"
C10_Witness ==
    /\ last.op = "load"
    /\ DOMAIN loads(meta) = {"us"}

----------------------------------------------------------------------------
(* Metadata files of any JSON content *)

\* the JSON values a country can hold in the file: the objects of the
\* expected structure, and an array, a string, an object with a string for
\* a cat1 and an object with an object for a cat1
CountryValues ==
    {[kind |-> "object", val |-> DumpCats(m)] : m \in CatMaps}
    \cup {[kind |-> "array", val |-> <<>>],
          [kind |-> "string", val |-> <<"x">>],
          [kind |-> "object",
           val |-> <<[tok |-> "member", key |-> "food", kind |-> "string", val |-> <<"x">>]>>],
          [kind |-> "object",
           val |-> <<[tok |-> "member", key |-> "food", kind |-> "object", val |-> <<>>]>>]}

\* the complete JSON objects over the countries
ObjectTexts ==
    UNION {{LET ks == SortedKeys(C)
            IN <<OpenTok>>
               \o [i \in 1..Len(ks) |->
                      [tok |-> "member", key |-> ks[i],
                       kind |-> f[ks[i]].kind, val |-> f[ks[i]].val]]
               \o <<CloseTok>> : f \in [C -> CountryValues]} : C \in SUBSET Countries}

\* the JSON text [], and a text cut short
OtherTexts == {<<[tok |-> "["], [tok |-> "]"]>>, <<OpenTok>>}

\* the starting states with any of these files under the root
InitAnyFile ==
    /\ loaded = FALSE
    /\ data = EmptyMap
    /\ meta \in {Absent} \cup ObjectTexts \cup OtherTexts
    /\ dirs = IF meta = Absent THEN {} ELSE {MetaDir}
    /\ files = NoFiles
    /\ clock = 0
    /\ last = [op |-> "start", arg |-> <<>>, ret |-> "ok", rep |-> FALSE, chain |-> <<>>]
    /\ runs = NoRuns

AnyFileNext ==
    \/ Store_load
    \/ Store_load_raises
    \/ \E c \in Countries : Store_add_country(c)

\* load and add_country on a metadata file of any content
SpecAnyFile == InitAnyFile /\ [][AnyFileNext]_vars

\* C11: Store.load raises, and leaves no Store, whenever the metadata file
\* exists and does not hold a mapping country -> (mapping cat1 -> list)
C11_LoadRejectsOtherStructure ==
    (last.op = "load" /\ ~ExpectedStructure(meta)) =>
        (last.ret = "raised" /\ ~loaded)

----------------------------------------------------------------------------
(* engine_v1.py: RecordSchema and generate_record_yaml.  A payload is a    *)
(* record of its fields; identifiers, roles and hashes are sequences of    *)
(* characters, timestamps and URIs sequences of pieces                     *)

Upper == {"A", "B", "C", "D", "E", "F", "G", "H", "I", "J", "K", "L", "M",
          "N", "O", "P", "Q", "R", "S", "T", "U", "V", "W", "X", "Y", "Z"}

Lower == {"a", "b", "c", "d", "e", "f", "g", "h", "i", "j", "k", "l", "m",
          "n", "o", "p", "q", "r", "s", "t", "u", "v", "w", "x", "y", "z"}

Digits == {"0", "1", "2", "3", "4", "5", "6", "7", "8", "9"}

\* min_length and max_length of hash_sha256
HashLen == 64

\* the most assets a payload holds
MaxAssets == 1

\* "https://assets.data-records.net/"
AssetPrefix == <<"https://", "assets.data-records.net", "/">>

\* str.startswith
StartsWith(s, prefix) ==
    Len(s) >= Len(prefix) /\ SubSeq(s, 1, Len(prefix)) = prefix

\* AssetSchema accepts the asset: role is a str, hash_sha256 has 64
\* characters, validate_uri finds the prefix
AssetSchemaValid(a) ==
    /\ Len(a.hash_sha256) >= HashLen
    /\ Len(a.hash_sha256) <= HashLen
    /\ StartsWith(a.uri, AssetPrefix)

\* re.match(r"^[A-Z]{2}-[A-Z]{3}-[A-Z]{3}-\d{3}$", v): $ also matches
\* before a newline that ends v
RecordIdMatches(v) ==
    /\ Len(v) = 14 \/ (Len(v) = 15 /\ v[15] = "\n")
    /\ \A i \in {1, 2, 4, 5, 6, 8, 9, 10} : v[i] \in Upper
    /\ \A i \in {3, 7, 11} : v[i] = "-"
    /\ \A i \in {12, 13, 14} : v[i] \in Digits

\* the dates, times and offsets of the timestamps used here
DatePieces == {"2024-01-01"}
TimePieces == {"12:00:00"}
OffsetPieces == {"+00:00"}

\* v.replace("Z", "+00:00")
ReplaceZ(v) == [i \in DOMAIN v |-> IF v[i] = "Z" THEN "+00:00" ELSE v[i]]

\* datetime.fromisoformat accepts: a date, then a separator and a time,
\* then an offset
FromIsoFormat(v) ==
    /\ Len(v) \in {1, 3, 4}
    /\ v[1] \in DatePieces
    /\ Len(v) >= 3 => v[3] \in TimePieces
    /\ Len(v) = 4 => v[4] \in OffsetPieces

\* validate_timestamp
TimestampValid(v) == FromIsoFormat(ReplaceZ(v))

\* RecordSchema(**data) raises no ValidationError
RecordSchemaValid(d) ==
    /\ RecordIdMatches(d.record_id)
    /\ TimestampValid(d.timestamp)
    /\ \A i \in DOMAIN d.assets : AssetSchemaValid(d.assets[i])

\* a string of n times the character c
Fill(c, n) == [i \in 1..n |-> c]

\* payloads: record ids "AB-CDE-FGH-123" and "ab-CDE-FGH-123"
RecordIds ==
    { <<"A", "B", "-", "C", "D", "E", "-", "F", "G", "H", "-", "1", "2", "3">>,
      <<"a", "b", "-", "C", "D", "E", "-", "F", "G", "H", "-", "1", "2", "3">> }

\* timestamps "2024-01-01T12:00:00Z" and "yesterday"
Timestamps == { <<"2024-01-01", "T", "12:00:00", "Z">>, <<"yesterday">> }

\* subjects: {"brand": "Acme", "name": "a b"} and {"name": "x"}
Subjects ==
    { [brand |-> <<"A", "c", "m", "e">>, name |-> <<"a", " ", "b">>],
      [name |-> <<"x">>] }

\* roles "front" and ""
Roles == { <<"f", "r", "o", "n", "t">>, <<>> }

\* hashes of 64 hexadecimal characters, of 64 other characters and of 63
Hashes == { Fill("a", HashLen), Fill("g", HashLen), Fill("a", HashLen - 1) }

\* URIs on the asset domain and elsewhere
Uris == { <<"https://", "assets.data-records.net", "/", "x">>,
          <<"https://", "evil.example", "/", "x">> }

Assets == [role : Roles, hash_sha256 : Hashes, uri : Uris]

AssetLists(n) == UNION {[1..k -> Assets] : k \in 0..n}

Payloads(n) ==
    [record_id : RecordIds, timestamp : Timestamps, subject : Subjects,
     assets : AssetLists(n)]

\* RecordSchema(**data) called by itself
RecordSchema(d) ==
    /\ last' = Done("RecordSchema", d,
                    IF RecordSchemaValid(d) THEN "record" ELSE "ValidationError")
    /\ UNCHANGED <<loaded, data, meta, dirs, files, clock, runs>>

SchemaNext == \E d \in Payloads(MaxAssets) : RecordSchema(d)

\* the validator on the payloads
SpecSchema == InitEmpty /\ [][SchemaNext]_vars

\* C12: RecordSchema accepts the assets of a payload exactly when every
\* asset has a role that is not empty, a hash of 64 hexadecimal characters
\* and a URI that begins with https://assets.data-records.net/
C12_AssetsAcceptedIffWellFormed ==
    (/\ last.op = "RecordSchema"
     /\ RecordIdMatches(last.arg.record_id)
     /\ TimestampValid(last.arg.timestamp)) =>
        (last.ret = "record" <=>
            \A i \in DOMAIN last.arg.assets :
                LET a == last.arg.assets[i]
                IN /\ a.role # <<>>
                   /\ Len(a.hash_sha256) = 64
                   /\ \A j \in DOMAIN a.hash_sha256 :
                         a.hash_sha256[j] \in Digits \cup {"a", "b", "c", "d", "e", "f"}
                                                     \cup {"A", "B", "C", "D", "E", "F"}
                   /\ StartsWith(a.uri, <<"https://", "assets.data-records.net", "/">>))

----------------------------------------------------------------------------
(* generate_record_yaml *)

\* the characters of letters and digits (str.isalnum)
Alnum == Upper \cup Lower \cup Digits

\* the characters of s that are in keep, in order
RECURSIVE Filter(_, _)
Filter(s, keep) ==
    IF s = <<>> THEN <<>>
    ELSE (IF Head(s) \in keep THEN <<Head(s)>> ELSE <<>>) \o Filter(Tail(s), keep)

\* dict.get(key, 'unknown')
SubjectGet(subject, key) ==
    IF key \in DOMAIN subject THEN subject[key]
    ELSE <<"u", "n", "k", "n", "o", "w", "n">>

\* the name of the record file: brand-name.yaml without the characters that
\* are no letter, digit, - or _, stripped, and .yaml again
RecordFilename(d) ==
    Strip(Filter(SubjectGet(d.subject, "brand") \o <<"-">>
                     \o SubjectGet(d.subject, "name") \o <<".", "y", "a", "m", "l">>,
                 Alnum \cup {"-", "_"}), Whitespace)
        \o <<".", "y", "a", "m", "l">>

\* the validated record, with the defaults of the fields data leaves out
Record(d) ==
    [record_id |-> d.record_id, timestamp |-> d.timestamp,
     subject |-> d.subject, assets |-> d.assets,
     license |-> "LicenseSchema()",
     rights_owner |-> "Data-Records Asset Custodian",
     authority |-> "data-records.net"]

\* what generate_record_yaml writes: two comment lines and the record
RecordBody(d) ==
    << <<"# Data Records Canonical Entry">>,
       <<"# ID: ">> \o d.record_id,
       <<Record(d)>> >>

\* the directory the records go to
OutputDirs == { <<"out", "records">> }

\* a generate_record_yaml that prepares the directory before it validates
generate_record_yaml_mkdir_first(d, output_dir) ==
    LET arg == [data |-> d, output_dir |-> output_dir]
    IN /\ dirs' = IF Exists(output_dir, dirs, files) THEN dirs
                  ELSE ensure_dir(dirs, output_dir)
       /\ IF ~RecordSchemaValid(d)
          THEN /\ last' = Done("generate_record_yaml", arg, "ValidationError")
               /\ UNCHANGED files
          ELSE /\ files' = SetKey(files, output_dir \o <<RecordFilename(d)>>,
                                  RecordBody(d))
               /\ last' = Done("generate_record_yaml", arg, "written")
       /\ UNCHANGED <<loaded, data, meta, clock, runs>>

generate_record_yaml(d, output_dir) ==
    LET arg == [data |-> d, output_dir |-> output_dir]
    IN /\ IF ~RecordSchemaValid(d)
          THEN /\ last' = Done("generate_record_yaml", arg, "ValidationError")
               /\ UNCHANGED <<dirs, files>>
          ELSE /\ dirs' = IF Exists(output_dir, dirs, files) THEN dirs
                          ELSE ensure_dir(dirs, output_dir)
               /\ files' = SetKey(files, output_dir \o <<RecordFilename(d)>>,
                                  RecordBody(d))
               /\ last' = Done("generate_record_yaml", arg, "written")
       /\ UNCHANGED <<loaded, data, meta, clock, runs>>

RecordNext ==
    \E d \in Payloads(1), output_dir \in OutputDirs :
        generate_record_yaml(d, output_dir)

\* the record generator on an empty tree
SpecRecord == InitEmpty /\ [][RecordNext]_vars

\* C20: a generate_record_yaml that raises the validation error leaves
\* every directory and file as it was, and a call that creates a directory
\* or writes a file was given a payload with a well-formed record id and
\* timestamp and with assets on the asset domain
C20_ValidationBeforeEffects ==
    [][last'.op = "generate_record_yaml" =>
         /\ last'.ret = "ValidationError" => (dirs' = dirs /\ files' = files)
         /\ (dirs' # dirs \/ files' # files) =>
               /\ last'.arg.data.record_id \in
                      {r \in RecordIds : r[1] \in Upper /\ r[2] \in Upper}
               /\ last'.arg.data.timestamp # <<"yesterday">>
               /\ \A i \in DOMAIN last'.arg.data.assets :
                     /\ last'.arg.data.assets[i].uri[2] = "assets.data-records.net"
                     /\ Len(last'.arg.data.assets[i].hash_sha256) = 64
         /\ last'.ret = "ValidationError" <=>
                (\/ last'.arg.data.record_id[1] \notin Upper
                 \/ last'.arg.data.timestamp = <<"yesterday">>
                 \/ \E i \in DOMAIN last'.arg.data.assets :
                       \/ last'.arg.data.assets[i].uri[2] # "assets.data-records.net"
                       \/ Len(last'.arg.data.assets[i].hash_sha256) # 64)]_vars

\* a payload that fails validation came after records were written
C20_Witness ==
    /\ last.op = "generate_record_yaml"
    /\ last.ret = "ValidationError"
    /\ files # NoFiles

----------------------------------------------------------------------------
(* End to end: one product from an empty root *)

\* "Spicy Chips!"
SpicyChips == <<"S", "p", "i", "c", "y", " ", "C", "h", "i", "p", "s", "!">>

\* "line1\nline2"
TwoLines == <<"l", "i", "n", "e", "1", "\n", "l", "i", "n", "e", "2">>

EndToEndNext ==
    \/ Store_load
    \/ Store_add_country("cn")
    \/ Store_add_cat1("cn", "food")
    \/ Store_add_cat2("cn", "food", "snacks")
    \/ \E c \in {"cn", NoCountry} : Store_sync_dirs(c)
    \/ \E ow \in BOOLEAN : cmd_gen("cn", "food", "snacks", SpicyChips, TwoLines, ow)

\* load, the three additions, sync and gen in any order, from an empty root
SpecEndToEnd == InitEmpty /\ [][EndToEndNext]_vars

\* C13 as stated: after gen has written the product "Spicy Chips!" there is
\* a file cn/food/snacks/spicy-chips.yaml, no file name holds a "!", and the
\* body holds both lines of the description
C13_FileAtLowercaseSlug ==
    (last.op = "gen" /\ last.ret = "generated") =>
        LET p == <<"cn", "food", "snacks",
                   <<"s", "p", "i", "c", "y", "-", "c", "h", "i", "p", "s", ".yaml">> >>
        IN /\ p \in DOMAIN files
           /\ \A q \in DOMAIN files : "!" \notin Range(q[4])
           /\ <<" ", " ", " ", " ", "l", "i", "n", "e", "1">> \in Range(files[p])
           /\ <<" ", " ", " ", " ", "l", "i", "n", "e", "2">> \in Range(files[p])

\* C13: after gen has written the product "Spicy Chips!" the one file is
\* cn/food/snacks/Spicy-Chips!.yaml: the blank became a hyphen, case and
\* the "!" are kept; its body holds both lines of the description,
\* indented by four blanks
C13_FileAtSlug ==
    (last.op = "gen" /\ last.ret = "generated") =>
        LET p == <<"cn", "food", "snacks",
                   <<"S", "p", "i", "c", "y", "-", "C", "h", "i", "p", "s", "!", ".yaml">> >>
        IN /\ DOMAIN files = {p}
           /\ <<"cn", "food", "snacks">> \in dirs
           /\ <<" ", " ", " ", " ", "l", "i", "n", "e", "1">> \in Range(files[p])
           /\ <<" ", " ", " ", " ", "l", "i", "n", "e", "2">> \in Range(files[p])

\* gen has written the product into the tree a sync had made
C13_Witness ==
    /\ last.op = "gen"
    /\ last.ret = "generated"
    /\ last.arg[4] = SpicyChips
    /\ last.arg[5] = TwoLines
    /\ data = SetKey(EmptyMap, "cn", SetKey(EmptyMap, "food", <<"snacks">>))

----------------------------------------------------------------------------
(* slugify_filename on every short name *)

\* the longest name
MaxNameLen == 4

\* a letter, the whitespace, the separators, the dot and a reserved character
NameChars == {"a", " ", "\n", "-", "_", ".", "<"}

Names == UNION {[1..n -> NameChars] : n \in 0..MaxNameLen}

\* a name is given
InitSlug ==
    /\ loaded = FALSE
    /\ data = EmptyMap
    /\ meta = Absent
    /\ dirs = {}
    /\ files = NoFiles
    /\ clock = 0
    /\ runs = NoRuns
    /\ \E x \in Names :
          last = [op |-> "name", arg |-> x, ret |-> "ok", rep |-> FALSE,
                  chain |-> <<>>]

\* slugify_filename(name)
Slugify ==
    /\ last.op = "name"
    /\ last' = Done("slugify_filename", last.arg, slugify_filename(last.arg))
    /\ UNCHANGED <<loaded, data, meta, dirs, files, clock, runs>>

\* slugify_filename on the slug the last call returned
SlugifyAgain ==
    /\ last.op = "slugify_filename"
    /\ last' = Done("slugify_filename", last.ret, slugify_filename(last.ret))
    /\ UNCHANGED <<loaded, data, meta, dirs, files, clock, runs>>

SlugNext == Slugify \/ SlugifyAgain

SpecSlug == InitSlug /\ [][SlugNext]_vars

\* C14: the slug of a slug is that slug: whatever slugify_filename returns,
\* slugify_filename returns it unchanged when given it
C14_SlugifyIdempotent ==
    [][last'.op = "slugify_filename" =>
         /\ slugify_filename(last'.ret) = last'.ret
         /\ last.op = "slugify_filename" => last'.ret = last.ret]_vars

\* the second call on the slug of a name made of reserved, separator and
\* dot characters only
C14_Witness ==
    /\ last.op = "slugify_filename"
    /\ last.arg = Fallback
    /\ last.ret = Fallback
    /\ last.rep = FALSE

----------------------------------------------------------------------------
(* The commands add and rm: a mutation and the save that follows it *)

\* an argument that was not given (None, or the empty string)
NotGiven == ""

\* an add that forgets the save
cmd_add_without_save(country, cat1, cat2) ==
    LET d == IF cat1 = NotGiven THEN add_country(data, country)
             ELSE IF cat2 = NotGiven THEN add_cat1(data, country, cat1)
             ELSE add_cat2(data, country, cat1, cat2)
    IN /\ loaded
       /\ data' = d
       /\ last' = Done("cmd_add", <<country, cat1, cat2>>, "ok")
       /\ UNCHANGED <<loaded, meta, dirs, files, clock, runs>>

cmd_add(country, cat1, cat2) ==
    LET d == IF cat1 = NotGiven THEN add_country(data, country)
             ELSE IF cat2 = NotGiven THEN add_cat1(data, country, cat1)
             ELSE add_cat2(data, country, cat1, cat2)
    IN /\ loaded
       /\ data' = d
       /\ meta' = dumps(d)
       /\ last' = Done("cmd_add", <<country, cat1, cat2>>, "ok")
       /\ UNCHANGED <<loaded, dirs, files, clock, runs>>

\* an rm that also removes the directory of the entry and what is in it
cmd_rm_with_rmtree(country, cat1, cat2) ==
    LET d  == IF cat2 # NotGiven THEN remove_cat2(data, country, cat1, cat2)
              ELSE remove_cat1(data, country, cat1)
        ok == IF cat2 # NotGiven THEN remove_cat2_ret(data, country, cat1, cat2)
              ELSE remove_cat1_ret(data, country, cat1)
        t  == IF cat2 # NotGiven THEN <<country, cat1, cat2>> ELSE <<country, cat1>>
        in(p) == Len(p) >= Len(t) /\ SubSeq(p, 1, Len(t)) = t
    IN /\ loaded
       /\ data' = d
       /\ meta' = dumps(d)
       /\ dirs' = {p \in dirs : ~in(p)}
       /\ files' = [p \in {q \in DOMAIN files : ~in(q)} |-> files[p]]
       /\ last' = Done("cmd_rm", <<country, cat1, cat2>>,
                       IF ok THEN "Removed." ELSE "Not found.")
       /\ UNCHANGED <<loaded, clock, runs>>

cmd_rm(country, cat1, cat2) ==
    LET d  == IF cat2 # NotGiven THEN remove_cat2(data, country, cat1, cat2)
              ELSE remove_cat1(data, country, cat1)
        ok == IF cat2 # NotGiven THEN remove_cat2_ret(data, country, cat1, cat2)
              ELSE remove_cat1_ret(data, country, cat1)
    IN /\ loaded
       /\ data' = d
       /\ meta' = dumps(d)
       /\ last' = Done("cmd_rm", <<country, cat1, cat2>>,
                       IF ok THEN "Removed." ELSE "Not found.")
       /\ UNCHANGED <<loaded, dirs, files, clock, runs>>

\* the product the commands generate: "<"
CliProduct == <<"<">>

CliNext ==
    \/ Store_load
    \/ \E c \in Countries, k1 \in Cat1Names \cup {NotGiven},
          k2 \in Cat2Names \cup {NotGiven} : cmd_add(c, k1, k2)
    \/ \E c \in Countries, k1 \in Cat1Names,
          k2 \in Cat2Names \cup {NotGiven} : cmd_rm(c, k1, k2)
    \/ \E c \in Countries \cup {NoCountry} : Store_sync_dirs(c)
    \/ \E ds \in Descriptions, ow \in BOOLEAN :
          cmd_gen("cn", "food", "snacks", CliProduct, ds, ow)

\* the commands of the program, one after the other, from an empty root
SpecCli == InitEmpty /\ [][CliNext]_vars

\* C15: no step of load, add, rm, sync or gen removes a directory or a
\* file, and only gen changes a file: every directory and every file of
\* before the step is there after it
C15_NothingIsDeleted ==
    [][/\ dirs \subseteq dirs'
       /\ DOMAIN files \subseteq DOMAIN files'
       /\ last'.op # "gen" => files' = files]_vars

\* a sync after the triple cn/food/snacks was removed from the taxonomy,
\* with its directory and the file in it still there
C15_Witness ==
    /\ last.op = "sync_dirs"
    /\ loaded
    /\ "food" \notin DOMAIN data["cn"]
    /\ <<"cn", "food", "snacks">> \in dirs
    /\ out_path("cn", "food", "snacks", CliProduct) \in DOMAIN files

\* C17: when add or rm is finished, and when load has created the default
\* document, the metadata file holds the document the Store holds
C17_MutationsArePersisted ==
    [][(\/ last'.op \in {"cmd_add", "cmd_rm"}
        \/ (last'.op = "load" /\ meta = Absent))
           => (meta' # Absent /\ Parseable(meta') /\ loads(meta') = data')]_vars

\* an rm that removed an entry is finished
C17_Witness ==
    /\ last.op = "cmd_rm"
    /\ last.ret = "Removed."
    /\ loads(meta) = data

----------------------------------------------------------------------------
(* Removals in a taxonomy of two first-level categories *)

TwoCat1Names == {"food", "toys"}

RemoveNext ==
    \/ Store_load
    \/ \E c \in Countries, k1 \in TwoCat1Names : Store_add_cat1(c, k1)
    \/ \E c \in Countries, k1 \in TwoCat1Names, k2 \in Cat2Names :
          Store_add_cat2(c, k1, k2)
    \/ \E c \in Countries, k1 \in TwoCat1Names, k2 \in Cat2Names :
          Store_remove_cat2(c, k1, k2)
    \/ \E c \in Countries, k1 \in TwoCat1Names : Store_remove_cat1(c, k1)

SpecRemove == InitEmpty /\ [][RemoveNext]_vars

\* the taxonomy d holds cat1 under country
HasCat1(d, country, cat1) ==
    country \in DOMAIN d /\ cat1 \in DOMAIN d[country]

\* the taxonomy d holds cat2 under country and cat1
HasCat2(d, country, cat1, cat2) ==
    HasCat1(d, country, cat1) /\ cat2 \in Range(d[country][cat1])

\* C16: remove_cat1 and remove_cat2 return true exactly when the entry was
\* there before the call; the entry is not there after the call; a call
\* that returns false leaves the document as it was, and a call that
\* returns true leaves every other country, cat1 and cat2 as it was
C16_RemoveReturnsPresence ==
    [][/\ last'.op = "remove_cat2" =>
             LET c == last'.arg[1]  k1 == last'.arg[2]  k2 == last'.arg[3]
             IN /\ last'.ret = HasCat2(data, c, k1, k2)
                /\ ~HasCat2(data', c, k1, k2)
                /\ last'.ret = FALSE => data' = data
                /\ last'.ret = TRUE =>
                      /\ DOMAIN data' = DOMAIN data
                      /\ \A c2 \in DOMAIN data :
                            /\ DOMAIN data'[c2] = DOMAIN data[c2]
                            /\ \A j \in DOMAIN data[c2] :
                                  data'[c2][j] =
                                      IF c2 = c /\ j = k1
                                      THEN SelectSeq(data[c][k1], LAMBDA x : x # k2)
                                      ELSE data[c2][j]
       /\ last'.op = "remove_cat1" =>
             LET c == last'.arg[1]  k1 == last'.arg[2]
             IN /\ last'.ret = HasCat1(data, c, k1)
                /\ ~HasCat1(data', c, k1)
                /\ last'.ret = FALSE => data' = data
                /\ last'.ret = TRUE =>
                      /\ DOMAIN data' = DOMAIN data
                      /\ \A c2 \in DOMAIN data :
                            /\ DOMAIN data'[c2] =
                                  DOMAIN data[c2] \ (IF c2 = c THEN {k1} ELSE {})
                            /\ \A j \in DOMAIN data'[c2] :
                                  data'[c2][j] = data[c2][j]]_vars

\* remove_cat1 has removed food, with its cat2 entries, and toys is left
C16_Witness ==
    /\ last.op = "remove_cat1"
    /\ last.arg = <<"cn", "food">>
    /\ last.ret = TRUE
    /\ data["cn"] = SetKey(EmptyMap, "toys", <<"drinks", "snacks">>)

----------------------------------------------------------------------------
(* Two invocations of the program on one root.  Each is a process of its   *)
(* own with a Store of its own: runs[i] holds how far invocation i is and  *)
(* the document of its Store; the metadata file is the one they share      *)

Invocations == {1, 2}

\* the add and rm commands an invocation can be given
Commands ==
    [cmd : {"add"}, country : Countries, cat1 : Cat1Names \cup {NotGiven},
     cat2 : Cat2Names \cup {NotGiven}]
    \cup [cmd : {"rm"}, country : Countries, cat1 : Cat1Names,
          cat2 : Cat2Names \cup {NotGiven}]

\* the document after the mutation of cmd_add or cmd_rm
CommandResult(d, m) ==
    IF m.cmd = "add"
    THEN IF m.cat1 = NotGiven THEN add_country(d, m.country)
         ELSE IF m.cat2 = NotGiven THEN add_cat1(d, m.country, m.cat1)
         ELSE add_cat2(d, m.country, m.cat1, m.cat2)
    ELSE IF m.cat2 # NotGiven THEN remove_cat2(d, m.country, m.cat1, m.cat2)
         ELSE remove_cat1(d, m.country, m.cat1)

\* Store.load up to the test meta_file.exists(): the file is read when it
\* is there
Run_load(i) ==
    /\ i \notin DOMAIN runs
    /\ dirs' = ensure_dir(dirs, MetaDir)
    /\ runs' = SetKey(runs, i,
                      IF meta = Absent THEN [pc |-> "create", data |-> EmptyMap]
                      ELSE [pc |-> "loaded", data |-> LoadedDocument(meta)])
    /\ last' = Done("run_load", i, "ok")
    /\ UNCHANGED <<loaded, data, meta, files, clock>>

\* Store.load after the test found no file: the default document is written
Run_create(i) ==
    /\ i \in DOMAIN runs
    /\ runs[i].pc = "create"
    /\ meta' = dumps(SetKey(EmptyMap, "cn", EmptyMap))
    /\ runs' = SetKey(runs, i, [pc |-> "loaded",
                                data |-> SetKey(EmptyMap, "cn", EmptyMap)])
    /\ last' = Done("run_create", i, "ok")
    /\ UNCHANGED <<loaded, data, dirs, files, clock>>

\* the mutation of cmd_add or cmd_rm, on the Store of the invocation
Run_mutate(i, m) ==
    /\ i \in DOMAIN runs
    /\ runs[i].pc = "loaded"
    /\ runs' = SetKey(runs, i, [pc |-> "mutated",
                                data |-> CommandResult(runs[i].data, m)])
    /\ last' = Done("run_mutate", i, "ok")
    /\ UNCHANGED <<loaded, data, meta, dirs, files, clock>>

\* a save that leaves the file alone when an invocation has saved already
Run_save_first_wins(i) ==
    /\ i \in DOMAIN runs
    /\ runs[i].pc = "mutated"
    /\ meta' = IF \E j \in DOMAIN runs : runs[j].pc = "saved" THEN meta
               ELSE dumps(runs[i].data)
    /\ runs' = SetKey(runs, i, [pc |-> "saved", data |-> runs[i].data])
    /\ last' = Done("run_save", i, "ok")
    /\ UNCHANGED <<loaded, data, dirs, files, clock>>

\* store.save() of cmd_add or cmd_rm
Run_save(i) ==
    /\ i \in DOMAIN runs
    /\ runs[i].pc = "mutated"
    /\ meta' = dumps(runs[i].data)
    /\ runs' = SetKey(runs, i, [pc |-> "saved", data |-> runs[i].data])
    /\ last' = Done("run_save", i, "ok")
    /\ UNCHANGED <<loaded, data, dirs, files, clock>>

RaceNext ==
    \E i \in Invocations :
        \/ Run_load(i)
        \/ Run_create(i)
        \/ \E m \in Commands : Run_mutate(i, m)
        \/ Run_save(i)

\* two invocations, their steps in any order, from an empty root
SpecRace == InitEmpty /\ [][RaceNext]_vars

----------------------------------------------------------------------------
(* sync_dirs step by step, beside another actor that creates directories:  *)
(* runs[1] holds the paths of the loops, the place in them, the list of    *)
(* created paths, and whether a path appeared between test and mkdir       *)

\* a mkdir that was not told exist_ok
mkdir_raises_exist_not_ok(p, ds, fs) == Exists(p, ds, fs)

\* Path.mkdir(parents=True, exist_ok=True) raises FileExistsError: only
\* when the path is there and is no directory
mkdir_raises(p, ds, fs) == p \in DOMAIN fs

\* no sync_dirs is on its way
SyncIdle ==
    IF 1 \notin DOMAIN runs THEN TRUE ELSE runs[1].pc \in {"done", "failed"}

\* sync_dirs is called: the loops begin
Sync_begin(country) ==
    /\ loaded
    /\ SyncIdle
    /\ runs' = SetKey(NoRuns, 1,
                      [pc |-> "test", country |-> country,
                       paths |-> SyncPaths(data, country), n |-> 1,
                       created |-> <<>>, raced |-> FALSE])
    /\ UNCHANGED <<loaded, data, meta, dirs, files, clock, last>>

\* if not p.exists()
Sync_test ==
    /\ ~SyncIdle
    /\ runs[1].pc = "test"
    /\ runs[1].n <= Len(runs[1].paths)
    /\ runs' = SetKey(runs, 1,
                      IF Exists(runs[1].paths[runs[1].n], dirs, files)
                      THEN [runs[1] EXCEPT !.n = @ + 1]
                      ELSE [runs[1] EXCEPT !.pc = "mkdir"])
    /\ UNCHANGED <<loaded, data, meta, dirs, files, clock, last>>

\* ensure_dir(p); created.append(p)
Sync_mkdir ==
    /\ ~SyncIdle
    /\ runs[1].pc = "mkdir"
    /\ LET p == runs[1].paths[runs[1].n]
       IN IF mkdir_raises(p, dirs, files)
          THEN /\ runs' = SetKey(runs, 1, [runs[1] EXCEPT !.pc = "failed"])
               /\ last' = Done("sync_dirs", <<runs[1].country>>, "FileExistsError")
               /\ UNCHANGED dirs
          ELSE /\ dirs' = ensure_dir(dirs, p)
               /\ runs' = SetKey(runs, 1,
                                 [runs[1] EXCEPT !.pc = "test", !.n = @ + 1,
                                                 !.created = Append(@, p),
                                                 !.raced = @ \/ p \in dirs])
               /\ UNCHANGED last
    /\ UNCHANGED <<loaded, data, meta, files, clock>>

\* return created
Sync_return ==
    /\ ~SyncIdle
    /\ runs[1].pc = "test"
    /\ runs[1].n > Len(runs[1].paths)
    /\ runs' = SetKey(runs, 1, [runs[1] EXCEPT !.pc = "done"])
    /\ last' = Done("sync_dirs", <<runs[1].country>>, runs[1].created)
    /\ UNCHANGED <<loaded, data, meta, dirs, files, clock>>

\* another actor creates the directory of a triple
Other_mkdir(country, cat1, cat2) ==
    /\ target_dir(country, cat1, cat2) \notin dirs
    /\ dirs' = ensure_dir(dirs, target_dir(country, cat1, cat2))
    /\ UNCHANGED <<loaded, data, meta, files, clock, last, runs>>

\* add_cat2, which the one thread of the program calls between two calls
\* of sync_dirs only
Idle_add_cat2(country, cat1, cat2) ==
    /\ SyncIdle
    /\ Store_add_cat2(country, cat1, cat2)

SyncRaceNext ==
    \/ Store_load
    \/ \E c \in Countries, k1 \in Cat1Names, k2 \in Cat2Names :
          Idle_add_cat2(c, k1, k2)
    \/ \E c \in Countries \cup {NoCountry} : Sync_begin(c)
    \/ Sync_test
    \/ Sync_mkdir
    \/ Sync_return
    \/ \E c \in Countries, k1 \in Cat1Names, k2 \in Cat2Names :
          Other_mkdir(c, k1, k2)

\* sync_dirs while another actor creates directories
SpecSyncRace == InitEmpty /\ [][SyncRaceNext]_vars

\* C19: sync_dirs never fails because a directory is there already; when
\* it returns it has gone through every triple, and the directory of every
\* triple is there, also when one appeared between the test and the mkdir
C19_RaceIsSuccess ==
    1 \in DOMAIN runs =>
        /\ runs[1].pc # "failed"
        /\ runs[1].pc = "done" =>
              /\ runs[1].n = Len(runs[1].paths) + 1
              /\ \A i \in DOMAIN runs[1].paths : runs[1].paths[i] \in dirs

\* sync_dirs has returned after a directory appeared between the test and
\* the mkdir of a triple that was not the last one
C19_Witness ==
    /\ 1 \in DOMAIN runs
    /\ runs[1].pc = "done"
    /\ runs[1].raced
    /\ Len(runs[1].paths) >= 2
    /\ last.op = "sync_dirs"

====
